---- MODULE Spec2Model ----
(***************************************************************************)
(* Model of app/main.py of the Stock Market Analyzer: one Streamlit        *)
(* "Analyze" click runs main()'s pipeline                                   *)
(*   load_stock_data -> calculate_moving_averages -> calculate_rsi ->       *)
(*   metrics and charts -> technical analysis -> fetch_news -> news render. *)
(* A pandas float is modelled exactly: a rational n/d, NaN, +inf or -inf.   *)
(* A Series is a sequence of such values, index i of pandas being i+1 here. *)
(***************************************************************************)
EXTENDS Integers, Sequences, FiniteSets, TLC

\* ------------------------------------------------------------------ bounds
\* Longest price series the Yahoo collaborator returns.
MaxLen == 52
\* Close prices follow a repeating pattern of this many day-to-day steps.
PatLen == 2
\* Most articles in one NewsAPI answer.
MaxArticles == 2
\* Close price of the first row.
StartPrice == 400

\* --------------------------------------------------------- program constants
\* data['Close'].rolling(window=20)
SMA20Window == 20
\* data['Close'].rolling(window=50)
SMA50Window == 50
\* calculate_rsi(data, period=14)
RsiPeriod == 14
\* if rsi > 70
Overbought == 70
\* elif rsi < 30
Oversold == 30
\* if response.status_code != 200
HttpOk == 200

\* ------------------------------------------------------------ float values
NaN == [k |-> "nan", n |-> 0, d |-> 1]
PosInf == [k |-> "inf", n |-> 1, d |-> 1]
NegInf == [k |-> "inf", n |-> -1, d |-> 1]
Num(a, b) == IF b < 0 THEN [k |-> "num", n |-> -a, d |-> -b]
                       ELSE [k |-> "num", n |-> a, d |-> b]
Int2F(a) == Num(a, 1)

IsNaN(x) == x.k = "nan"
IsNum(x) == x.k = "num"

\* IEEE comparison: anything compared with NaN is False.
Gt(x, y) ==
    /\ ~IsNaN(x)
    /\ ~IsNaN(y)
    /\ IF IsNum(x) /\ IsNum(y) THEN x.n * y.d > y.n * x.d
       ELSE IF IsNum(x) THEN y = NegInf
       ELSE IF IsNum(y) THEN x = PosInf
       ELSE x = PosInf /\ y = NegInf
Lt(x, y) == Gt(y, x)

Neg(x) == IF IsNaN(x) THEN NaN ELSE [x EXCEPT !.n = -x.n]

FAdd(x, y) ==
    IF IsNaN(x) \/ IsNaN(y) THEN NaN
    ELSE IF IsNum(x) /\ IsNum(y) THEN Num(x.n * y.d + y.n * x.d, x.d * y.d)
    ELSE IF IsNum(x) THEN y
    ELSE IF IsNum(y) THEN x
    ELSE IF x = y THEN x ELSE NaN
FSub(x, y) == FAdd(x, Neg(y))

\* numpy float division: x/0 is +-inf, 0/0 is NaN, no exception is raised.
FDiv(x, y) ==
    IF IsNaN(x) \/ IsNaN(y) THEN NaN
    ELSE IF IsNum(x) /\ IsNum(y) THEN
        IF y.n = 0 THEN (IF x.n = 0 THEN NaN ELSE IF x.n > 0 THEN PosInf ELSE NegInf)
        ELSE Num(x.n * y.d, x.d * y.n)
    ELSE IF IsNum(x) THEN Num(0, 1)
    ELSE IF IsNum(y) THEN (IF (y.n >= 0) = (x.n > 0) THEN PosInf ELSE NegInf)
    ELSE NaN

\* ------------------------------------------------------------ pandas Series
\* Series.diff(): the first element has no predecessor and is NaN.
Diff(s) == [i \in 1..Len(s) |-> IF i = 1 THEN NaN ELSE FSub(s[i], s[i - 1])]

\* Series.where(cond, other) with cond = (s > 0): NaN > 0 is False.
WherePositive(s, other) ==
    [i \in 1..Len(s) |-> IF Gt(s[i], Int2F(0)) THEN s[i] ELSE other]
\* Series.where(cond, other) with cond = (s < 0).
WhereNegative(s, other) ==
    [i \in 1..Len(s) |-> IF Lt(s[i], Int2F(0)) THEN s[i] ELSE other]

\* Series.rolling(window).mean(), min_periods = window: pandas slides the
\* window keeping a running sum and a count of non-NaN observations, adding
\* the entering value and removing the leaving one.
RECURSIVE RollStep(_, _, _, _, _)
RollStep(s, window, minp, win, acc) ==
    IF Len(acc) = Len(s) THEN acc
    ELSE LET i     == Len(acc) + 1
             enter == s[i]
             gone  == i - window
             leave == IF gone >= 1 THEN s[gone] ELSE NaN
             added == IF IsNaN(enter) THEN win
                      ELSE [sum |-> FAdd(win.sum, enter), nobs |-> win.nobs + 1]
             slid  == IF IsNaN(leave) THEN added
                      ELSE [sum |-> FSub(added.sum, leave), nobs |-> added.nobs - 1]
             out   == IF slid.nobs >= minp THEN FDiv(slid.sum, Int2F(slid.nobs))
                      ELSE NaN
         IN RollStep(s, window, minp, slid, Append(acc, out))

RollingMean(s, window) ==
    RollStep(s, window, window, [sum |-> Int2F(0), nobs |-> 0], <<>>)

\* ------------------------------------------------------------- DataFrame
\* A frame maps column names to Series of one length; pd.DataFrame() has
\* no rows.
EmptyFrame == [Close |-> <<>>]
IsEmpty(data) == Len(data.Close) = 0
Last(s) == s[Len(s)]

\* f"{x:.2f}": the value rounded to hundredths (half to even), "nan" for NaN.
Fmt2(x) ==
    IF ~IsNum(x) THEN x.k
    ELSE LET q == (100 * x.n) \div x.d
             r == (100 * x.n) % x.d
         IN IF 2 * r > x.d \/ (2 * r = x.d /\ q % 2 = 1) THEN q + 1 ELSE q

\* ------------------------------------------------------- Yahoo collaborator
\* Day-to-day close changes the modelled histories are built from.
StepSet == {-7, -3, 0, 3, 7}
Patterns == [1..PatLen -> StepSet]
\* Row counts around every window of the indicators.
Lengths == {1, RsiPeriod - 1, RsiPeriod, RsiPeriod + 1, SMA20Window - 1,
            SMA20Window, SMA50Window - 1, SMA50Window, MaxLen}

RECURSIVE Walk(_, _, _, _)
Walk(len, pat, price, acc) ==
    IF Len(acc) = len THEN acc
    ELSE Walk(len, pat, price + pat[(Len(acc) % PatLen) + 1],
              Append(acc, Int2F(price)))
History(len, pat) == [Close |-> Walk(len, pat, StartPrice, <<>>)]

\* stock.history(...) raises, returns no rows, or returns a history.
YahooAnswers ==
    {[kind |-> "raise", rows |-> EmptyFrame], [kind |-> "empty", rows |-> EmptyFrame]}
    \cup {[kind |-> "rows", rows |-> History(len, pat)] :
              len \in Lengths, pat \in Patterns}

\* ------------------------------------------------------------- operations
NoDataNotice == "No data found. Please check the ticker symbol and date range."
LoadErrorNotice == "An error occurred while loading data. Please try again."

\* load_stock_data: the frame returned and what it wrote with st.error.
load_stock_data(answer) ==
    IF answer.kind = "raise" THEN [data |-> EmptyFrame, shown |-> <<LoadErrorNotice>>]
    ELSE IF IsEmpty(answer.rows) THEN [data |-> EmptyFrame, shown |-> <<NoDataNotice>>]
    ELSE [data |-> answer.rows, shown |-> <<>>]

\* Mutant: rolling(window=w, min_periods=1), a mean of however many rows exist.
calculate_moving_averages_minp1(data) ==
    data @@ [SMA_20 |-> RollStep(data.Close, SMA20Window, 1, [sum |-> Int2F(0), nobs |-> 0], <<>>),
             SMA_50 |-> RollStep(data.Close, SMA50Window, 1, [sum |-> Int2F(0), nobs |-> 0], <<>>)]

calculate_moving_averages(data) ==
    data @@ [SMA_20 |-> RollingMean(data.Close, SMA20Window),
             SMA_50 |-> RollingMean(data.Close, SMA50Window)]

\* Mutant: the loss is not negated, so the mean loss is <= 0.
calculate_rsi_unnegated(data, period) ==
    LET delta == Diff(data.Close)
        gain  == RollingMean(WherePositive(delta, Int2F(0)), period)
        loss  == RollingMean(WhereNegative(delta, Int2F(0)), period)
        rs    == [i \in 1..Len(gain) |-> FDiv(gain[i], loss[i])]
    IN data @@ [RSI |-> [i \in 1..Len(rs) |->
                   FSub(Int2F(100), FDiv(Int2F(100), FAdd(Int2F(1), rs[i])))]]

\* Mutant: the rolling windows are one row short (window = period - 1).
calculate_rsi_shortwindow(data, period) ==
    LET delta == Diff(data.Close)
        gain  == RollingMean(WherePositive(delta, Int2F(0)), period - 1)
        down  == WhereNegative(delta, Int2F(0))
        loss  == RollingMean([i \in 1..Len(down) |-> Neg(down[i])], period - 1)
        rs    == [i \in 1..Len(gain) |-> FDiv(gain[i], loss[i])]
    IN data @@ [RSI |-> [i \in 1..Len(rs) |->
                   FSub(Int2F(100), FDiv(Int2F(100), FAdd(Int2F(1), rs[i])))]]

calculate_rsi(data, period) ==
    LET delta == Diff(data.Close)
        gain  == RollingMean(WherePositive(delta, Int2F(0)), period)
        down  == WhereNegative(delta, Int2F(0))
        loss  == RollingMean([i \in 1..Len(down) |-> Neg(down[i])], period)
        rs    == [i \in 1..Len(gain) |-> FDiv(gain[i], loss[i])]
    IN data @@ [RSI |-> [i \in 1..Len(rs) |->
                   FSub(Int2F(100), FDiv(Int2F(100), FAdd(Int2F(1), rs[i])))]]

\* Mutant: the comparisons of the trend are not strict.
Trend_nonstrict(last_close, sma_20, sma_50) ==
    IF ~Lt(last_close, sma_20) /\ ~Lt(sma_20, sma_50)
       /\ ~IsNaN(last_close) /\ ~IsNaN(sma_20) /\ ~IsNaN(sma_50) THEN "Uptrend"
    ELSE IF ~Gt(last_close, sma_20) /\ ~Gt(sma_20, sma_50)
       /\ ~IsNaN(last_close) /\ ~IsNaN(sma_20) /\ ~IsNaN(sma_50) THEN "Downtrend"
    ELSE "Mixed"

\* if last_close > sma_20 > sma_50 / elif last_close < sma_20 < sma_50 / else
Trend(last_close, sma_20, sma_50) ==
    IF Gt(last_close, sma_20) /\ Gt(sma_20, sma_50) THEN "Uptrend"
    ELSE IF Lt(last_close, sma_20) /\ Lt(sma_20, sma_50) THEN "Downtrend"
    ELSE "Mixed"

\* Mutant: rsi >= 70 counts as overbought.
Momentum_inclusive(rsi) ==
    IF ~IsNaN(rsi) /\ ~Lt(rsi, Int2F(Overbought)) THEN "Overbought"
    ELSE IF Lt(rsi, Int2F(Oversold)) THEN "Oversold"
    ELSE "Neutral"

\* if rsi > 70 / elif rsi < 30 / else
Momentum(rsi) ==
    IF Gt(rsi, Int2F(Overbought)) THEN "Overbought"
    ELSE IF Lt(rsi, Int2F(Oversold)) THEN "Oversold"
    ELSE "Neutral"

UptrendText == "The stock is in an uptrend."
DowntrendText == "The stock is in a downtrend."
MixedText == "The stock is showing mixed signals."
OverboughtText == "The RSI indicates that the stock may be overbought."
OversoldText == "The RSI indicates that the stock may be oversold."
NeutralText == "The RSI is neutral."
NoNewsText == "No recent news found."

TrendText(label) ==
    IF label = "Uptrend" THEN UptrendText
    ELSE IF label = "Downtrend" THEN DowntrendText ELSE MixedText
MomentumText(label) ==
    IF label = "Overbought" THEN OverboughtText
    ELSE IF label = "Oversold" THEN OversoldText ELSE NeutralText

\* ----------------------------------------------------- NewsAPI collaborator
\* JSON values of an article: a string or null; a key may also be absent.
JStr(s) == <<"str", s>>
JNull == <<"null">>
IsStr(v) == v[1] = "str"

ArticlePool ==
    { [title |-> JStr("Great"), description |-> JStr("d1")],
      [title |-> JStr("Awful")],
      [title |-> JStr(""), description |-> JStr("d3")],
      [title |-> JNull, description |-> JStr("d4")],
      [description |-> JStr("d5")] }

RECURSIVE SeqsUpTo(_, _)
SeqsUpTo(S, n) ==
    IF n = 0 THEN {<<>>}
    ELSE LET shorter == SeqsUpTo(S, n - 1)
         IN shorter \cup {Append(q, a) : q \in {r \in shorter : Len(r) = n - 1}, a \in S}
Batches == SeqsUpTo(ArticlePool, MaxArticles)

ErrorBody == [status |-> "error"]
StaleBody == [articles |-> <<[title |-> JStr("Great"), description |-> JStr("d1")]>>]
NoAnswer == [kind |-> "none"]
NoKey == "None"

\* requests.get(url) raises, or answers with a status and a JSON body; NewsAPI
\* answers 200 only to a request that carries a key.
NewsAnswers(key) ==
    {[kind |-> "raise"]}
    \cup {[kind |-> "http", status |-> st, body |-> b] :
              st \in {401, 500}, b \in {ErrorBody, StaleBody}}
    \cup IF key = NoKey THEN {}
         ELSE {[kind |-> "http", status |-> HttpOk, body |-> b] :
                   b \in {ErrorBody} \cup {[articles |-> batch] : batch \in Batches}}

\* TextBlob(title).sentiment.polarity of a string, by its lexicon.
Polarity(text) ==
    IF text = "Great" THEN Num(4, 5)
    ELSE IF text = "Awful" THEN Num(-1, 1)
    ELSE Num(0, 1)

\* The loop over the articles: article["title"] raises KeyError on a missing
\* key and TextBlob(None) raises TypeError; either ends fetch_news.
RECURSIVE ScoreArticles(_, _, _)
ScoreArticles(articles, i, acc) ==
    IF i > Len(articles) THEN [raised |-> "none", value |-> acc]
    ELSE LET article == articles[i] IN
         IF "title" \notin DOMAIN article THEN [raised |-> "KeyError", value |-> <<>>]
         ELSE IF ~IsStr(article.title) THEN [raised |-> "TypeError", value |-> <<>>]
         ELSE ScoreArticles(articles, i + 1,
                  Append(acc, [title |-> article.title,
                               description |->
                                   IF "description" \in DOMAIN article
                                   THEN article.description
                                   ELSE JStr("No description available"),
                               sentiment |-> Polarity(article.title[2])]))

\* Mutant: the status of the answer is not looked at.
fetch_news_unchecked(key, answer) ==
    IF answer.kind = "raise" THEN [raised |-> "ConnectionError", value |-> <<>>]
    ELSE LET articles == IF "articles" \in DOMAIN answer.body
                         THEN answer.body.articles ELSE <<>>
         IN ScoreArticles(articles, 1, <<>>)

fetch_news(key, answer) ==
    IF answer.kind = "raise" THEN [raised |-> "ConnectionError", value |-> <<>>]
    ELSE IF answer.status # HttpOk THEN [raised |-> "none", value |-> <<>>]
    ELSE LET articles == IF "articles" \in DOMAIN answer.body
                         THEN answer.body.articles ELSE <<>>
         IN ScoreArticles(articles, 1, <<>>)

\* "Positive" if sentiment > 0 else "Negative" if sentiment < 0 else "Neutral"
SentimentText(sentiment) ==
    IF Gt(sentiment, Int2F(0)) THEN "Positive"
    ELSE IF Lt(sentiment, Int2F(0)) THEN "Negative" ELSE "Neutral"
SentimentColor(sentiment) ==
    IF Gt(sentiment, Int2F(0)) THEN "green"
    ELSE IF Lt(sentiment, Int2F(0)) THEN "red" ELSE "gray"

\* if news_data: one block per item, else the "no news" line.
NewsBlocks(items) ==
    IF Len(items) > 0
    THEN [i \in 1..Len(items) |->
             <<"news", items[i].title, items[i].description,
               SentimentText(items[i].sentiment), SentimentColor(items[i].sentiment),
               Fmt2(items[i].sentiment)>>]
    ELSE << <<"write", NoNewsText>> >>

\* Mutant: the frame is not tested before the indicators.
HasData_always(data) == TRUE

\* if not data.empty
HasData(data) == ~IsEmpty(data)

\* ------------------------------------------------------------------ state
VARIABLES
    pc,         \* where main() stands
    api_key,    \* os.environ.get("API_KEY"), read once at import
    data,       \* the DataFrame of this run
    screen,     \* what this run has rendered, in order
    calls,      \* the functions this run has entered
    yahoo,      \* how the price retrieval of this run answered
    response,   \* how the news retrieval of this run answered
    news_data,  \* what fetch_news returned
    raised      \* the exception that left main(), "none" if none

vars == <<pc, api_key, data, screen, calls, yahoo, response, news_data, raised>>

Init ==
    /\ pc = "idle"
    /\ api_key \in {"key", NoKey}
    /\ data = EmptyFrame
    /\ screen = <<>>
    /\ calls = {}
    /\ yahoo = "none"
    /\ response = NoAnswer
    /\ news_data = <<>>
    /\ raised = "none"

\* The user presses Analyze: Streamlit reruns the script from an empty page.
Analyze ==
    /\ pc \in {"idle", "done", "crashed"}
    /\ pc' = "load"
    /\ data' = EmptyFrame
    /\ screen' = <<>>
    /\ calls' = {}
    /\ yahoo' = "none"
    /\ response' = NoAnswer
    /\ news_data' = <<>>
    /\ raised' = "none"
    /\ UNCHANGED api_key

LoadStockData ==
    /\ pc = "load"
    /\ \E answer \in YahooAnswers :
          LET r == load_stock_data(answer) IN
          /\ data' = r.data
          /\ screen' = screen \o [i \in 1..Len(r.shown) |-> <<"error", r.shown[i]>>]
          /\ yahoo' = answer.kind
    /\ calls' = calls \cup {"load_stock_data"}
    /\ pc' = "gate"
    /\ UNCHANGED <<api_key, response, news_data, raised>>

CheckData ==
    /\ pc = "gate"
    /\ pc' = IF HasData(data) THEN "averages" ELSE "done"
    /\ UNCHANGED <<api_key, data, screen, calls, yahoo, response, news_data, raised>>

CalculateMovingAverages ==
    /\ pc = "averages"
    /\ calls' = calls \cup {"calculate_moving_averages"}
    /\ data' = calculate_moving_averages(data)
    /\ pc' = "rsi"
    /\ UNCHANGED <<api_key, screen, yahoo, response, news_data, raised>>

CalculateRsi ==
    /\ pc = "rsi"
    /\ calls' = calls \cup {"calculate_rsi"}
    /\ data' = calculate_rsi(data, RsiPeriod)
    /\ pc' = "display"
    /\ UNCHANGED <<api_key, screen, yahoo, response, news_data, raised>>

DisplayMetrics ==
    /\ pc = "display"
    /\ screen' = screen \o
          << <<"metric", "Current Price", Fmt2(Last(data.Close))>>,
             <<"metric", "50-day SMA", Fmt2(Last(data.SMA_50))>>,
             <<"metric", "RSI", Fmt2(Last(data.RSI))>>,
             <<"chart", "price">>, <<"chart", "rsi">> >>
    /\ calls' = calls \cup {"create_chart", "create_rsi_chart"}
    /\ pc' = "technical"
    /\ UNCHANGED <<api_key, data, yahoo, response, news_data, raised>>

TechnicalAnalysis ==
    /\ pc = "technical"
    /\ LET last_close == Last(data.Close)
           sma_20 == Last(data.SMA_20)
           sma_50 == Last(data.SMA_50)
           rsi == Last(data.RSI)
       IN screen' = screen \o
             << <<"write", TrendText(Trend(last_close, sma_20, sma_50))>>,
                <<"write", MomentumText(Momentum(rsi))>> >>
    /\ calls' = calls \cup {"classify"}
    /\ pc' = "news"
    /\ UNCHANGED <<api_key, data, yahoo, response, news_data, raised>>

FetchNews ==
    /\ pc = "news"
    /\ calls' = calls \cup {"fetch_news"}
    /\ \E answer \in NewsAnswers(api_key) :
          LET r == fetch_news(api_key, answer) IN
          /\ response' = answer
          /\ raised' = r.raised
          /\ news_data' = r.value
          /\ pc' = IF r.raised = "none" THEN "render" ELSE "crashed"
    /\ UNCHANGED <<api_key, data, screen, yahoo>>

RenderNews ==
    /\ pc = "render"
    /\ screen' = screen \o NewsBlocks(news_data)
    /\ pc' = "done"
    /\ UNCHANGED <<api_key, data, calls, yahoo, response, news_data, raised>>

Next ==
    \/ Analyze
    \/ LoadStockData
    \/ CheckData
    \/ CalculateMovingAverages
    \/ CalculateRsi
    \/ DisplayMetrics
    \/ TechnicalAnalysis
    \/ FetchNews
    \/ RenderNews

Spec == Init /\ [][Next]_vars

\* ------------------------------------------------------------ properties
Rows == 1..Len(data.Close)
HasColumn(c) == c \in DOMAIN data
Wrote(text) == \E i \in 1..Len(screen) : screen[i][1] = "write" /\ screen[i][2] = text
ShowedError(text) == \E i \in 1..Len(screen) : screen[i][1] = "error" /\ screen[i][2] = text
NewsShown == {i \in 1..Len(screen) : screen[i][1] = "news"}

\* close[lo] + ... + close[hi] of the integer close prices, halving the range.
RECURSIVE CloseSum(_, _)
CloseSum(lo, hi) ==
    IF lo > hi THEN 0
    ELSE IF lo = hi THEN data.Close[lo].n
    ELSE LET mid == (lo + hi) \div 2 IN CloseSum(lo, mid) + CloseSum(mid + 1, hi)

\* column[i] is defined exactly from the window-th row on, and there it is the
\* mean of the last `window` closes.
IsWindowMean(column, window) ==
    \A i \in Rows :
        IF i >= window
        THEN /\ IsNum(column[i])
             /\ column[i].n * window = CloseSum(i - window + 1, i) * column[i].d
        ELSE IsNaN(column[i])

\* C1: once calculate_moving_averages has run, SMA_20[i] and SMA_50[i] are
\* defined exactly for the rows with a full window behind them (pandas index
\* i >= w-1, row i+1 here) and equal the arithmetic mean of the closes of that
\* window; every earlier row is NaN.
C1_SmaIsWindowMean ==
    (HasColumn("SMA_20") /\ HasColumn("SMA_50")) =>
        /\ Len(data.SMA_20) = Len(data.Close)
        /\ Len(data.SMA_50) = Len(data.Close)
        /\ IsWindowMean(data.SMA_20, SMA20Window)
        /\ IsWindowMean(data.SMA_50, SMA50Window)

\* C1 witness: a history longer than both windows has been averaged, with
\* closes that differ inside the window.
C1_Witness ==
    /\ HasColumn("SMA_50")
    /\ Len(data.Close) > SMA50Window
    /\ IsNum(Last(data.SMA_50))
    /\ Last(data.SMA_50) # Last(data.SMA_20)
    /\ data.Close[1] # data.Close[2]

\* C2: every RSI value that is not NaN lies in [0, 100], also where the mean
\* loss of the window is zero.
C2_RsiInRange ==
    HasColumn("RSI") =>
        \A i \in Rows :
            ~IsNaN(data.RSI[i]) =>
                /\ IsNum(data.RSI[i])
                /\ data.RSI[i].n >= 0
                /\ data.RSI[i].n <= 100 * data.RSI[i].d

\* C2 witness: a window of rises only (mean loss zero, mean gain positive)
\* has produced a defined RSI.
C2_Witness ==
    /\ HasColumn("RSI")
    /\ Len(data.Close) > RsiPeriod
    /\ \A i \in 2..Len(data.Close) : data.Close[i].n > data.Close[i - 1].n
    /\ IsNum(Last(data.RSI))

\* C10 as claimed: RSI is NaN on the first P rows (pandas index 0..P-1).
C10_FirstPRowsUndefined ==
    HasColumn("RSI") => \A i \in Rows : i <= RsiPeriod => IsNaN(data.RSI[i])

\* C10 amended: RSI is NaN on the first P-1 rows (pandas index 0..P-2),
\* whatever the closes are.
C10_FirstPMinusOneRowsUndefined ==
    HasColumn("RSI") => \A i \in Rows : i < RsiPeriod => IsNaN(data.RSI[i])

\* C10 witness: a history of at least P rows whose P-th row (index P-1)
\* already carries an RSI.
C10_Witness ==
    /\ HasColumn("RSI")
    /\ Len(data.Close) >= RsiPeriod
    /\ IsNum(data.RSI[RsiPeriod])
    /\ \A i \in 1..(RsiPeriod - 1) : IsNaN(data.RSI[i])

\* The last row, as the technical analysis reads it.
Classified == "classify" \in calls
Defined3 == IsNum(Last(data.Close)) /\ IsNum(Last(data.SMA_20)) /\ IsNum(Last(data.SMA_50))
Above(x, y) == x.n * y.d > y.n * x.d
Same(x, y) == x.n * y.d = y.n * x.d
Rising == /\ Defined3
          /\ Above(Last(data.Close), Last(data.SMA_20))
          /\ Above(Last(data.SMA_20), Last(data.SMA_50))
Falling == /\ Defined3
           /\ Above(Last(data.SMA_20), Last(data.Close))
           /\ Above(Last(data.SMA_50), Last(data.SMA_20))

\* C3: the sentence written is the uptrend one exactly when
\* close > SMA_20 > SMA_50, the downtrend one exactly when
\* close < SMA_20 < SMA_50, the mixed one otherwise; a tie between adjacent
\* values gives the mixed one.
C3_TrendStrict ==
    Classified =>
        /\ Wrote(UptrendText) <=> Rising
        /\ Wrote(DowntrendText) <=> Falling
        /\ Wrote(MixedText) <=> (~Rising /\ ~Falling)
        /\ (Defined3 /\ (Same(Last(data.Close), Last(data.SMA_20))
                         \/ Same(Last(data.SMA_20), Last(data.SMA_50))))
               => Wrote(MixedText)

\* C3 witness: close = SMA_20 = SMA_50 on the last row, classified as mixed.
C3_Witness ==
    /\ Classified
    /\ Defined3
    /\ Same(Last(data.Close), Last(data.SMA_20))
    /\ Same(Last(data.SMA_20), Last(data.SMA_50))
    /\ Wrote(MixedText)

\* C4: for a defined RSI the sentence written is the overbought one exactly
\* when RSI > 70, the oversold one exactly when RSI < 30, the neutral one
\* exactly when 30 <= RSI <= 70, and exactly one of the three is written.
C4_MomentumThresholds ==
    (Classified /\ IsNum(Last(data.RSI))) =>
        LET rsi == Last(data.RSI) IN
        /\ Wrote(OverboughtText) <=> rsi.n > Overbought * rsi.d
        /\ Wrote(OversoldText) <=> rsi.n < Oversold * rsi.d
        /\ Wrote(NeutralText) <=> (rsi.n >= Oversold * rsi.d /\ rsi.n <= Overbought * rsi.d)
        /\ Cardinality({t \in {OverboughtText, OversoldText, NeutralText} : Wrote(t)}) = 1

\* C4 witness: an RSI of exactly 70 has been classified, as neutral.
C4_Witness ==
    /\ Classified
    /\ IsNum(Last(data.RSI))
    /\ Last(data.RSI).n = Overbought * Last(data.RSI).d
    /\ Wrote(NeutralText)

\* C5: when the price retrieval raised or returned no rows, a notice is on
\* the screen and nothing downstream of load_stock_data is entered in that
\* run: no averages, no RSI, no classification, no fetch_news.
C5_EmptySkipsDownstream ==
    yahoo \in {"raise", "empty"} =>
        /\ ShowedError(NoDataNotice) \/ ShowedError(LoadErrorNotice)
        /\ calls = {"load_stock_data"}
        /\ pc \in {"gate", "done"}
        /\ response = NoAnswer
        /\ \A i \in 1..Len(screen) : screen[i][1] = "error"

\* C5 witness: a run whose retrieval returned no rows has ended.
C5_Witness ==
    /\ pc = "done"
    /\ yahoo = "empty"
    /\ ShowedError(NoDataNotice)

\* C6: a news answer with a status other than 200 makes fetch_news return
\* the empty list without raising; the run then writes "No recent news
\* found." and renders no news item.
C6_Non200IsNoNews ==
    (response.kind = "http" /\ response.status # HttpOk) =>
        /\ raised = "none"
        /\ news_data = <<>>
        /\ pc \in {"render", "done"}
        /\ NewsShown = {}
        /\ pc = "done" => Wrote(NoNewsText)

\* C6 witness: a run answered with HTTP 500 has ended on the "no news" line.
C6_Witness ==
    /\ pc = "done"
    /\ response.kind = "http"
    /\ response.status = 500
    /\ Wrote(NoNewsText)

\* C7 as claimed: for a 200 answer fetch_news never fails, returns one item
\* per article, and an article whose title is absent, null or empty gets
\* score 0.0 (label Neutral).
TitleMissing(article) ==
    \/ "title" \notin DOMAIN article
    \/ article.title = JNull
    \/ article.title = JStr("")
C7_MissingTitleIsNeutral ==
    (/\ response.kind = "http"
     /\ response.status = HttpOk
     /\ "articles" \in DOMAIN response.body) =>
        LET articles == response.body.articles IN
        /\ raised = "none"
        /\ Len(news_data) = Len(articles)
        /\ \A i \in 1..Len(articles) :
              TitleMissing(articles[i]) =>
                  /\ Same(news_data[i].sentiment, Int2F(0))
                  /\ SentimentText(news_data[i].sentiment) = "Neutral"

\* C8 as claimed: when close, SMA_20, SMA_50 or RSI of the last row is
\* undefined, no trend sentence and no momentum sentence is written.
C8_UndefinedInputRefused ==
    (/\ Classified
     /\ \/ ~IsNum(Last(data.Close))
        \/ ~IsNum(Last(data.SMA_20))
        \/ ~IsNum(Last(data.SMA_50))
        \/ ~IsNum(Last(data.RSI))) =>
        \A t \in {UptrendText, DowntrendText, MixedText,
                  OverboughtText, OversoldText, NeutralText} : ~Wrote(t)

\* C9 as claimed: no run of main() ends with an exception leaving it.
C9_NoUnhandledException ==
    raised = "none" /\ pc # "crashed"

====
